---------------------------- MODULE Spec2Model ----------------------------
(***************************************************************************)
(* A model of the MultiVector engine of GeometricAlgebra (multivector.py)  *)
(* and of the GA factory (ga.py).                                          *)
(*                                                                         *)
(* Python objects are modelled with their identity: a MultiVector object   *)
(* holds a dimension and a reference to a Python list (its _data), and     *)
(* every list lives at an address of the list heap.  Coefficients are      *)
(* Python floats; the model computes with exact rationals <<num, den>>     *)
(* (den > 0, lowest terms), so 0.0 and -0.0 are one value and no rounding  *)
(* or overflow takes place.                                                *)
(***************************************************************************)
EXTENDS Integers, Sequences, FiniteSets, TLC

VARIABLES lists,   \* the list heap: lists[a] is the Python list at address a
          mvs,     \* the MultiVector objects: mvs[o] = [dim, data (an address)]
          live,    \* the objects the calling program holds a name for
          ret,     \* the last call: its name, arguments and outcome
          pc       \* the position of the calling program

vars == <<lists, mvs, live, ret, pc>>

-----------------------------------------------------------------------------
(* Bounds of the model.                                                    *)

\* the blade-index functions are explored for all indices below 2^BladeDim
BladeDim == 4
\* the multivectors a run starts from have a dimension of at most MaxDim
MaxDim == 2

\* the largest number of generator indices given to GA.blade
MaxIndices == 3

-----------------------------------------------------------------------------
(* Exact numbers standing for Python floats.                               *)

Max(a, b) == IF a >= b THEN a ELSE b

Abs(a) == IF a < 0 THEN -a ELSE a

RECURSIVE Gcd(_, _)
Gcd(a, b) == IF b = 0 THEN a ELSE Gcd(b, a % b)

\* the rational n/d (d # 0) in lowest terms with a positive denominator
Q(n, d) ==
    LET g == Gcd(Abs(n), Abs(d))
        s == IF d < 0 THEN -1 ELSE 1
    IN  <<(s * n) \div g, (s * d) \div g>>

\* float(n) for an integer n
Num(n) == <<n, 1>>

QAdd(x, y) == IF x[2] = 1 /\ y[2] = 1 THEN <<x[1] + y[1], 1>>
              ELSE Q(x[1] * y[2] + y[1] * x[2], x[2] * y[2])

QNeg(x) == <<-x[1], x[2]>>

QMul(x, y) == IF x[2] = 1 /\ y[2] = 1 THEN <<x[1] * y[1], 1>>
              ELSE Q(x[1] * y[1], x[2] * y[2])

\* x / y for y # 0 (the callers raise ZeroDivisionError when y is zero)
QDiv(x, y) == Q(x[1] * y[2], x[2] * y[1])

\* bool(x) of a float
Truthy(x) == x[1] # 0

-----------------------------------------------------------------------------
(* Python's integer operators on blade indices.                            *)

\* 2**n
RECURSIVE Pow2(_)
Pow2(n) == IF n = 0 THEN 1 ELSE 2 * Pow2(n - 1)

\* a ^ b
RECURSIVE Xor(_, _)
Xor(a, b) ==
    IF a = 0 THEN b
    ELSE IF b = 0 THEN a
    ELSE (((a % 2) + (b % 2)) % 2) + 2 * Xor(a \div 2, b \div 2)

\* a & b
RECURSIVE BitAnd(_, _)
BitAnd(a, b) ==
    IF a = 0 \/ b = 0 THEN 0
    ELSE ((a % 2) * (b % 2)) + 2 * BitAnd(a \div 2, b \div 2)

-----------------------------------------------------------------------------
(* Blade-index arithmetic: MultiVector._rank and MultiVector._blade_combine *)

\* bin(a).count('1')
RECURSIVE _rank(_)
_rank(a) == IF a = 0 THEN 0 ELSE (a % 2) + _rank(a \div 2)

\* the while loop of _blade_combine: the sign s after the bits e <= p
RECURSIVE combine_loop(_, _, _, _, _, _)
combine_loop(a, b, p, d, e, s) ==
    IF e > p THEN s
    ELSE LET d1 == IF BitAnd(e, a) # 0 THEN d - 1 ELSE d
             s1 == IF BitAnd(d1, 1) # 0 /\ BitAnd(e, b) # 0 THEN -s ELSE s
         IN  combine_loop(a, b, p, d1, 2 * e, s1)

\* a mutant of _blade_combine: the parity is read before the bit of a is counted off
combine_parity_before(a, b) ==
    LET RECURSIVE loop(_, _, _)
        loop(d, e, s) ==
            IF e > Max(a, b) THEN s
            ELSE LET s1 == IF BitAnd(d, 1) # 0 /\ BitAnd(e, b) # 0 THEN -s ELSE s
                     d1 == IF BitAnd(e, a) # 0 THEN d - 1 ELSE d
                 IN  loop(d1, 2 * e, s1)
    IN  IF a = 0 THEN <<b, 1>>
        ELSE IF b = 0 THEN <<a, 1>>
        ELSE <<Xor(a, b), loop(_rank(a), 1, 1)>>

\* a mutant of _blade_combine: the sign flips at a bit of b when any bit of a
\* is above it, not when an odd number of them is
combine_any_above(a, b) ==
    LET RECURSIVE loop(_, _, _)
        loop(d, e, s) ==
            IF e > Max(a, b) THEN s
            ELSE LET d1 == IF BitAnd(e, a) # 0 THEN d - 1 ELSE d
                     s1 == IF d1 # 0 /\ BitAnd(e, b) # 0 THEN -s ELSE s
                 IN  loop(d1, 2 * e, s1)
    IN  IF a = 0 THEN <<b, 1>>
        ELSE IF b = 0 THEN <<a, 1>>
        ELSE <<Xor(a, b), loop(_rank(a), 1, 1)>>

_blade_combine(a, b) ==
    IF a = 0 THEN <<b, 1>>
    ELSE IF b = 0 THEN <<a, 1>>
    ELSE <<Xor(a, b), combine_loop(a, b, Max(a, b), _rank(a), 1, 1)>>

-----------------------------------------------------------------------------
(* Python values, the heap, and the outcome of a call.                     *)
(*                                                                         *)
(* A value is [k, v, q]: k = "mv" (the MultiVector object v), "num" (the   *)
(* float q), "bool" (v = 1 for True, 0 for False), "None" or               *)
(* "NotImplemented".  A heap is [lists, mvs].  The outcome of a call is a  *)
(* value together with the heap h it leaves; a raised exception is an      *)
(* outcome whose k names the exception.                                    *)

Exceptions == {"TypeError", "ZeroDivisionError", "IndexError"}

Out(h, k, v, q) == [h |-> h, k |-> k, v |-> v, q |-> q]

RetMV(h, o) == Out(h, "mv", o, Num(0))

RetNum(h, q) == Out(h, "num", 0, q)

RetBool(h, b) == Out(h, "bool", IF b THEN 1 ELSE 0, Num(0))

RetNone(h) == Out(h, "None", 0, Num(0))

RetNotImplemented(h) == Out(h, "NotImplemented", 0, Num(0))

\* the float -math.inf
RetNegInf(h) == Out(h, "-inf", 0, Num(0))

\* the float math.sqrt(q)
RetSqrt(h, q) == Out(h, "sqrt", 0, q)

\* the list l of integers
RetList(h, l) == Out(h, "list", 0, l)

Raise(h, e) == Out(h, e, 0, Num(0))

IsExc(out) == out.k \in Exceptions

\* the value of an outcome, as an argument of the next call
Val(out) == [k |-> out.k, v |-> out.v, q |-> out.q]

NumVal(q) == [k |-> "num", v |-> 0, q |-> q]

MVVal(o) == [k |-> "mv", v |-> o, q |-> Num(0)]

\* one statement after another: the outcome of e is computed once, and then
\* F of that outcome
Then(e, F(_)) == CHOOSE r \in {F(x) : x \in {e}} : TRUE

\* self._data and self.dim
DataOf(h, o) == h.lists[h.mvs[o].data]

dim(h, o) == h.mvs[o].dim

\* the position of index i in a list of length n (Python counts a negative
\* index from the end); 0 when i is out of range
Pos(n, i) ==
    IF 0 <= i /\ i < n THEN i + 1
    ELSE IF -n <= i /\ i < 0 THEN i + n + 1
    ELSE 0

\* the heap with the list at address a replaced by d
Store(h, a, d) == [h EXCEPT !.lists[a] = d]

\* a new list d: the heap and the address
NewList(h, d) == [h |-> [h EXCEPT !.lists = Append(@, d)], a |-> Len(h.lists) + 1]

-----------------------------------------------------------------------------
(* class MultiVector: the container.                                       *)

\* MultiVector(dim): self._data = [0.0]*(2**dim); self._dim = dim
__init__(h, n) ==
    LET l == NewList(h, [i \in 1..Pow2(n) |-> Num(0)])
    IN  RetMV([l.h EXCEPT !.mvs = Append(@, [dim |-> n, data |-> l.a])],
              Len(h.mvs) + 1)

\* return self._data[i]
__getitem__(h, self, i) ==
    LET p == Pos(Len(DataOf(h, self)), i)
    IN  IF p = 0 THEN Raise(h, "IndexError") ELSE RetNum(h, DataOf(h, self)[p])

\* self._data[i] = float(coef)
__setitem__(h, self, i, coef) ==
    LET p == Pos(Len(DataOf(h, self)), i)
    IN  IF p = 0 THEN Raise(h, "IndexError")
        ELSE RetNone([h EXCEPT !.lists[h.mvs[self].data][p] = coef])

\* self._data[i] = 0.0
__delitem__(h, self, i) ==
    LET p == Pos(Len(DataOf(h, self)), i)
    IN  IF p = 0 THEN Raise(h, "IndexError")
        ELSE RetNone([h EXCEPT !.lists[h.mvs[self].data][p] = Num(0)])

\* return bool(self._data[i])
__contains__(h, self, i) ==
    LET p == Pos(Len(DataOf(h, self)), i)
    IN  IF p = 0 THEN Raise(h, "IndexError") ELSE RetBool(h, Truthy(DataOf(h, self)[p]))

\* the indices the generator yields from index i on:
\* for i in range(len(self._data)): if self._data[i]: yield i
RECURSIVE iter_loop(_, _)
iter_loop(d, i) ==
    IF i >= Len(d) THEN <<>>
    ELSE IF Truthy(d[i + 1]) THEN <<i>> \o iter_loop(d, i + 1)
    ELSE iter_loop(d, i + 1)

\* [i for i in self]
__iter__(h, self) == RetList(h, iter_loop(DataOf(h, self), 0))

\* a mutant of __len__: return len(self._data)
len_of_data(h, self) == Len(DataOf(h, self))

\* len(self._data) - self._data.count(0.0)
__len__(h, self) ==
    LET d == DataOf(h, self)
    IN  Len(d) - Cardinality({i \in 1..Len(d) : d[i] = Num(0)})

\* a mutant of __eq__: the lists are compared as multivectors, a missing
\* coefficient counting as zero
eq_promotes(h, self, other) ==
    RetBool(h, /\ other.k = "mv"
               /\ \A n \in 1..Max(Len(DataOf(h, self)), Len(DataOf(h, other.v))) :
                      (IF n <= Len(DataOf(h, self)) THEN DataOf(h, self)[n] ELSE Num(0))
                      = (IF n <= Len(DataOf(h, other.v)) THEN DataOf(h, other.v)[n] ELSE Num(0)))

\* isinstance(other, MultiVector) and self._data == other._data
__eq__(h, self, other) ==
    RetBool(h, other.k = "mv" /\ DataOf(h, self) = DataOf(h, other.v))

\* a mutant of __pos__: the copy shares the list of self
pos_shares_data(h, self) ==
    LET x == __init__(h, dim(h, self))
    IN  RetMV([x.h EXCEPT !.mvs[x.v].data = h.mvs[self].data], x.v)

\* a mutant of __pos__: the copy is made in a multivector of dimension 0
pos_forgets_dim(h, self) ==
    LET x == __init__(h, 0)
        l == NewList(x.h, DataOf(h, self))
    IN  RetMV([l.h EXCEPT !.mvs[x.v].data = l.a], x.v)

\* x = MultiVector(self.dim); x._data = self._data.copy()
__pos__(h, self) ==
    LET x == __init__(h, dim(h, self))
        l == NewList(x.h, DataOf(h, self))
    IN  RetMV([l.h EXCEPT !.mvs[x.v].data = l.a], x.v)

\* x = MultiVector(self.dim); x._data[i] = -self._data[i] for every i
__neg__(h, self) ==
    LET x == __init__(h, dim(h, self))
        d == DataOf(h, self)
    IN  RetMV(Store(x.h, x.h.mvs[x.v].data, [i \in 1..Len(d) |-> QNeg(d[i])]), x.v)

\* i = len(self); 0.0 if i == 0; self[0] if i == 1; else raise TypeError
__float__(h, self) ==
    LET i == __len__(h, self)
    IN  IF i = 0 THEN RetNum(h, Num(0))
        ELSE IF i = 1 THEN __getitem__(h, self, 0)
        ELSE Raise(h, "TypeError")

-----------------------------------------------------------------------------
(* class MultiVector: the arithmetic operators.  An operand `other` is a   *)
(* value: isinstance(other, Number) is other.k = "num".                    *)

\* the list of x after  for i in range(len(sd)): x._data[i] = sd[i]
\* and  for i in range(len(od)): x._data[i] += od[i]
add_loops(xd, sd, od) ==
    LET x1 == [i \in 1..Len(xd) |-> IF i <= Len(sd) THEN sd[i] ELSE xd[i]]
    IN  [i \in 1..Len(xd) |-> IF i <= Len(od) THEN QAdd(x1[i], od[i]) ELSE x1[i]]

\* a mutant of __add__: a bare number is added to every coefficient
add_num_everywhere(h, self, other) ==
    IF other.k = "num"
    THEN LET x == __pos__(h, self)
             d == DataOf(x.h, x.v)
         IN  RetMV(Store(x.h, x.h.mvs[x.v].data,
                         [i \in 1..Len(d) |-> QAdd(d[i], other.q)]), x.v)
    ELSE LET x == __init__(h, Max(dim(h, self), dim(h, other.v)))
         IN  RetMV(Store(x.h, x.h.mvs[x.v].data,
                         add_loops(DataOf(x.h, x.v), DataOf(h, self), DataOf(h, other.v))),
                   x.v)

__add__(h, self, other) ==
    IF other.k = "num"
    THEN \* x = +self; x[0] += float(other)
         LET x == __pos__(h, self)
             g == __getitem__(x.h, x.v, 0)
             w == __setitem__(g.h, x.v, 0, QAdd(g.q, other.q))
         IN  RetMV(w.h, x.v)
    ELSE \* m = max(self.dim, other.dim); x = MultiVector(m); the two loops
         LET x == __init__(h, Max(dim(h, self), dim(h, other.v)))
         IN  RetMV(Store(x.h, x.h.mvs[x.v].data,
                         add_loops(DataOf(x.h, x.v), DataOf(h, self), DataOf(h, other.v))),
                   x.v)

\* return self + other
__radd__(h, self, other) == __add__(h, self, other)

\* the Python expression -a
Negative(h, a) == IF a.k = "num" THEN RetNum(h, QNeg(a.q)) ELSE __neg__(h, a.v)

\* return self + (-other)
__sub__(h, self, other) ==
    LET n == Negative(h, other)
    IN  __add__(n.h, self, Val(n))

\* return -self + other
__rsub__(h, self, other) ==
    LET n == __neg__(h, self)
    IN  __add__(n.h, n.v, other)

\* the loop over j of __mul__ for one i, from j on, x._data being xd:
\* if other._data[j]: k, s = _blade_combine(i, j);
\*                    x._data[k] += self._data[i]*other._data[j]*s
RECURSIVE mul_inner(_, _, _, _, _)
mul_inner(xd, sd, od, i, j) ==
    IF j >= Len(od) THEN xd
    ELSE IF Truthy(od[j + 1])
    THEN LET ks == _blade_combine(i, j)
         IN  mul_inner([xd EXCEPT ![ks[1] + 1] =
                            QAdd(@, QMul(QMul(sd[i + 1], od[j + 1]), Num(ks[2])))],
                       sd, od, i, j + 1)
    ELSE mul_inner(xd, sd, od, i, j + 1)

\* the loop over i of __mul__, from i on, x._data being xd:
\* if self._data[i]: the loop over j, which leaves x._data = x1
RECURSIVE mul_outer(_, _, _, _)
mul_outer(xd, sd, od, i) ==
    IF i >= Len(sd) THEN xd
    ELSE IF Truthy(sd[i + 1])
    THEN CHOOSE x2 \in {mul_outer(x1, sd, od, i + 1) : x1 \in {mul_inner(xd, sd, od, i, 0)}} : TRUE
    ELSE mul_outer(xd, sd, od, i + 1)

\* a mutant of __mul__: the product of two multivectors takes the dimension of self
mul_dim_of_self(h, self, other) ==
    IF other.k = "num"
    THEN LET x == __init__(h, dim(h, self))
             d == DataOf(h, self)
         IN  RetMV(Store(x.h, x.h.mvs[x.v].data,
                         [i \in 1..Len(d) |-> QMul(d[i], other.q)]), x.v)
    ELSE LET x == __init__(h, dim(h, self))
             n == Len(DataOf(x.h, x.v))
             full == mul_outer([i \in 1..Max(n, Len(DataOf(h, other.v))) |-> Num(0)],
                               DataOf(h, self), DataOf(h, other.v), 0)
         IN  RetMV(Store(x.h, x.h.mvs[x.v].data, [i \in 1..n |-> full[i]]), x.v)

__mul__(h, self, other) ==
    IF other.k = "num"
    THEN \* x = MultiVector(self.dim); x._data[i] = self._data[i] * float(other)
         LET x == __init__(h, dim(h, self))
             d == DataOf(h, self)
         IN  RetMV(Store(x.h, x.h.mvs[x.v].data,
                         [i \in 1..Len(d) |-> QMul(d[i], other.q)]), x.v)
    ELSE \* m = max(self.dim, other.dim); x = MultiVector(m); the two loops
         LET x == __init__(h, Max(dim(h, self), dim(h, other.v)))
         IN  RetMV(Store(x.h, x.h.mvs[x.v].data,
                         mul_outer(DataOf(x.h, x.v), DataOf(h, self), DataOf(h, other.v), 0)),
                   x.v)

\* Number: self*other; MultiVector: other*self; else NotImplemented
__rmul__(h, self, other) ==
    IF other.k = "num" THEN __mul__(h, self, other)
    ELSE IF other.k = "mv" THEN __mul__(h, other.v, MVVal(self))
    ELSE RetNotImplemented(h)

\* the Python expression a*b, a or b a MultiVector
Times(h, a, b) == IF a.k = "mv" THEN __mul__(h, a.v, b) ELSE __rmul__(h, b.v, a)

\* x._data[i] /= 2 for every i
halve(h, x) ==
    LET d == DataOf(h, x)
    IN  Store(h, h.mvs[x].data, [i \in 1..Len(d) |-> QDiv(d[i], Num(2))])

\* a mutant of __and__: the halving loop is left out
and_not_halved(h, self, other) ==
    LET p1 == __mul__(h, self, other)
        p2 == Times(p1.h, other, MVVal(self))
    IN  __sub__(p2.h, p1.v, Val(p2))

\* x = self*other - other*self; x._data[i] /= 2
__and__(h, self, other) ==
    LET p1 == __mul__(h, self, other)
        p2 == Times(p1.h, other, MVVal(self))
        x == __sub__(p2.h, p1.v, Val(p2))
    IN  RetMV(halve(x.h, x.v), x.v)

\* x = self*other + other*self; x._data[i] /= 2
__matmul__(h, self, other) ==
    LET p1 == __mul__(h, self, other)
        p2 == Times(p1.h, other, MVVal(self))
        x == __add__(p2.h, p1.v, Val(p2))
    IN  RetMV(halve(x.h, x.v), x.v)

\* a mutant of __invert__: only the blades of grade 2 mod 4 are negated
invert_grade_two_only(h, self) ==
    LET x == __init__(h, dim(h, self))
        d == DataOf(h, self)
    IN  RetMV(Store(x.h, x.h.mvs[x.v].data,
                    [i \in 1..Len(d) |->
                        IF ~Truthy(d[i]) THEN DataOf(x.h, x.v)[i]
                        ELSE IF _rank(i - 1) % 4 = 2 THEN QNeg(d[i]) ELSE d[i]]),
              x.v)

\* x = MultiVector(self.dim); x[i] = -v if _rank(i) % 4 in (2, 3) else v, for v # 0
__invert__(h, self) ==
    LET x == __init__(h, dim(h, self))
        d == DataOf(h, self)
    IN  RetMV(Store(x.h, x.h.mvs[x.v].data,
                    [i \in 1..Len(d) |->
                        IF ~Truthy(d[i]) THEN DataOf(x.h, x.v)[i]
                        ELSE IF _rank(i - 1) % 4 \in {2, 3} THEN QNeg(d[i]) ELSE d[i]]),
              x.v)

\* x = MultiVector(self.dim); x._data[-1] = 1.0
I(h, self) ==
    LET x == __init__(h, dim(h, self))
        n == Len(DataOf(x.h, x.v))
    IN  RetMV([x.h EXCEPT !.lists[x.h.mvs[x.v].data][Pos(n, -1)] = Num(1)], x.v)

\* a mutant of dual: return self*x
dual_times_I(h, self) ==
    LET x == I(h, self)
    IN  __mul__(x.h, self, Val(x))

\* x = self.I; return self*x*x*x
dual(h, self) ==
    LET x == I(h, self)
        p1 == __mul__(x.h, self, Val(x))
        p2 == __mul__(p1.h, p1.v, Val(x))
    IN  __mul__(p2.h, p2.v, Val(x))

\* return self.dual() * other
__or__(h, self, other) ==
    LET d == dual(h, self)
    IN  __mul__(d.h, d.v, other)

\* the loop of __abs__ from the k-th yielded index on: a = self._data[i]; x += a*a
RECURSIVE abs_loop(_, _, _, _)
abs_loop(d, l, x, k) ==
    IF k > Len(l) THEN x
    ELSE abs_loop(d, l, QAdd(x, QMul(d[l[k] + 1], d[l[k] + 1])), k + 1)

\* the loop of the mutant of __abs__: x += a
RECURSIVE abs_loop_unsquared(_, _, _, _)
abs_loop_unsquared(d, l, x, k) ==
    IF k > Len(l) THEN x
    ELSE abs_loop_unsquared(d, l, QAdd(x, d[l[k] + 1]), k + 1)

\* a mutant of __abs__: x += a
abs_unsquared(h, self) ==
    LET d == DataOf(h, self)
    IN  RetSqrt(h, abs_loop_unsquared(d, iter_loop(d, 0), Num(0), 1))

\* x = 0.0; for i in self: a = self._data[i]; x += a*a; return math.sqrt(x)
__abs__(h, self) ==
    LET d == DataOf(h, self)
    IN  RetSqrt(h, abs_loop(d, iter_loop(d, 0), Num(0), 1))

\* the loop of rank from index i on, r the outcome so far:
\* if self._data[i]: r = max(r, MultiVector._rank(i))
RECURSIVE rank_loop(_, _, _, _)
rank_loop(h, d, r, i) ==
    IF i >= Len(d) THEN r
    ELSE IF ~Truthy(d[i + 1]) THEN rank_loop(h, d, r, i + 1)
    ELSE IF r.k = "-inf" THEN rank_loop(h, d, RetNum(h, Num(_rank(i))), i + 1)
    ELSE rank_loop(h, d, RetNum(h, Num(Max(r.q[1], _rank(i)))), i + 1)

\* a mutant of rank: r starts at 0
rank_from_zero(h, self) == rank_loop(h, DataOf(h, self), RetNum(h, Num(0)), 0)

\* r = -math.inf; the loop; return r
rank(h, self) == rank_loop(h, DataOf(h, self), RetNegInf(h), 0)

\* a mutant of cross_product: return (self * other).dual()
cross_of_product(h, self, other) ==
    LET w == __mul__(h, self, other)
    IN  dual(w.h, w.v)

\* return (self & other).dual()
cross_product(h, self, other) ==
    LET w == __and__(h, self, other)
    IN  dual(w.h, w.v)

\* x._data[i] *= s for every i
scale(h, x, s) ==
    LET d == DataOf(h, x)
    IN  Store(h, h.mvs[x].data, [i \in 1..Len(d) |-> QMul(d[i], s)])

\* a mutant of inv_end: ZeroDivisionError is caught like TypeError
inv_end_catches_zero(f, x) ==
    IF f.k = "TypeError" THEN RetNotImplemented(f.h)
    ELSE IF IsExc(f) THEN f
    ELSE IF ~Truthy(f.q) THEN RetNotImplemented(f.h)
    ELSE RetMV(scale(f.h, x, QDiv(Num(1), f.q)), x)

\* a mutant of inv_end: the scaling loop is left out
inv_end_unscaled(f, x) ==
    IF f.k = "TypeError" THEN RetNotImplemented(f.h)
    ELSE IF IsExc(f) THEN f
    ELSE IF ~Truthy(f.q) THEN Raise(f.h, "ZeroDivisionError")
    ELSE RetMV(f.h, x)

\* the end of left_inv and right_inv, f the outcome of float(...):
\* TypeError is caught (return NotImplemented), 1.0 / 0.0 raises
inv_end(f, x) ==
    IF f.k = "TypeError" THEN RetNotImplemented(f.h)
    ELSE IF IsExc(f) THEN f
    ELSE IF ~Truthy(f.q) THEN Raise(f.h, "ZeroDivisionError")
    ELSE RetMV(scale(f.h, x, QDiv(Num(1), f.q)), x)

\* a mutant of left_inv: the reversion is left out (x = +self)
left_inv_no_reversion(h, self) ==
    LET x == __pos__(h, self)
        p == __mul__(x.h, self, Val(x))
    IN  inv_end(__float__(p.h, p.v), x.v)

\* x = ~self; s = 1.0 / float(self*x); x._data[i] *= s
left_inv(h, self) ==
    LET x == __invert__(h, self)
        p == __mul__(x.h, self, Val(x))
    IN  inv_end(__float__(p.h, p.v), x.v)

\* x = ~self; s = 1.0 / float(x*self); x._data[i] *= s
right_inv(h, self) ==
    LET x == __invert__(h, self)
        p == __mul__(x.h, x.v, MVVal(self))
    IN  inv_end(__float__(p.h, p.v), x.v)

\* a mutant of __truediv__: the inverse is multiplied from the left (x * self)
truediv_inverse_first(h, self, other) ==
    IF other.k = "num"
    THEN IF ~Truthy(other.q) THEN Raise(h, "ZeroDivisionError")
         ELSE __mul__(h, self, NumVal(QDiv(Num(1), other.q)))
    ELSE LET x == left_inv(h, other.v)
         IN  IF x.k = "mv" THEN __mul__(x.h, x.v, MVVal(self)) ELSE x

\* a mutant of __truediv__: division by the number zero returns NotImplemented
truediv_zero_sentinel(h, self, other) ==
    IF other.k = "num"
    THEN IF ~Truthy(other.q) THEN RetNotImplemented(h)
         ELSE __mul__(h, self, NumVal(QDiv(Num(1), other.q)))
    ELSE LET x == left_inv(h, other.v)
         IN  IF x.k = "mv" THEN __mul__(x.h, self, Val(x)) ELSE x

\* Number: self * (1.0 / other); else x = other.left_inv();
\* NotImplemented if x is, else self * x
__truediv__(h, self, other) ==
    IF other.k = "num"
    THEN IF ~Truthy(other.q) THEN Raise(h, "ZeroDivisionError")
         ELSE __mul__(h, self, NumVal(QDiv(Num(1), other.q)))
    ELSE LET x == left_inv(h, other.v)
         IN  IF x.k = "mv" THEN __mul__(x.h, self, Val(x)) ELSE x

-----------------------------------------------------------------------------
(* class GA: the factory of the algebra of rank n.                         *)

\* x = MultiVector(self.n); x[0] = float(s)
scalar(h, n, s) ==
    LET x == __init__(h, n)
        w == __setitem__(x.h, x.v, 0, s)
    IN  RetMV(w.h, x.v)

\* the loop of coerce_multivector from index i on: if m[i]: x[i] = m[i]
RECURSIVE coerce_loop(_, _, _, _)
coerce_loop(h, x, m, i) ==
    IF i >= Pow2(dim(h, m)) THEN RetMV(h, x)
    ELSE LET g == __getitem__(h, m, i)
         IN  IF ~Truthy(g.q) THEN coerce_loop(h, x, m, i + 1)
             ELSE LET w == __setitem__(h, x, i, g.q)
                  IN  IF IsExc(w) THEN w ELSE coerce_loop(w.h, x, m, i + 1)

\* a mutant of coerce_multivector: the loop stops at the length of x
coerce_truncating(h, n, m) ==
    LET x == __init__(h, n)
        d == DataOf(h, m)
    IN  RetMV(Store(x.h, x.h.mvs[x.v].data,
                    [i \in 1..Pow2(n) |-> IF i <= Len(d) THEN d[i] ELSE Num(0)]),
              x.v)

\* x = MultiVector(self.n); for i in range(2**m.dim): if m[i]: x[i] = m[i]
coerce_multivector(h, n, m) ==
    LET x == __init__(h, n)
    IN  coerce_loop(x.h, x.v, m, 0)

\* a mutant of blade_loop: x = y * x
RECURSIVE blade_loop_left(_, _, _, _, _)
blade_loop_left(h, n, x, l, k) ==
    IF k > Len(l) THEN RetMV(h, x)
    ELSE Then(__init__(h, n), LAMBDA y :
         Then(__setitem__(y.h, y.v, Pow2(l[k] - 1), Num(1)), LAMBDA w :
         IF IsExc(w) THEN w
         ELSE Then(__mul__(w.h, y.v, MVVal(x)), LAMBDA p :
              blade_loop_left(p.h, n, p.v, l, k + 1))))

\* the loop of blade from the k-th index of l on:
\* y = MultiVector(self.n); y[2**(i-1)] = 1.0; x *= y
RECURSIVE blade_loop(_, _, _, _, _)
blade_loop(h, n, x, l, k) ==
    IF k > Len(l) THEN RetMV(h, x)
    ELSE Then(__init__(h, n), LAMBDA y :
         Then(__setitem__(y.h, y.v, Pow2(l[k] - 1), Num(1)), LAMBDA w :
         IF IsExc(w) THEN w
         ELSE Then(__mul__(w.h, x, MVVal(y.v)), LAMBDA p :
              blade_loop(p.h, n, p.v, l, k + 1))))

\* x = self.scalar(coef); the loop over indices; return x
blade(h, n, coef, indices) ==
    Then(scalar(h, n, coef), LAMBDA x : blade_loop(x.h, n, x.v, indices, 1))

\* the index of GA.__getitem__: a tuple of integers, or an integer
TupleVal(l) == [k |-> "tuple", v |-> 0, q |-> l]

IntVal(i) == [k |-> "int", v |-> i, q |-> <<i>>]

\* GA.__getitem__: self.blade(1.0, *index) for a tuple, else self.blade(1.0, index)
ga_getitem(h, n, index) ==
    IF index.k = "tuple" THEN blade(h, n, Num(1), index.q)
    ELSE blade(h, n, Num(1), <<index.v>>)

-----------------------------------------------------------------------------
(* The calling program.  It holds the multivectors of `live`, makes one    *)
(* call (pc = "ready" -> "called") and may then set or clear a coefficient *)
(* of any multivector it holds (pc = "called" -> "mutated").               *)

Heap == [lists |-> lists, mvs |-> mvs]

NoCall == [op |-> "none", args |-> <<>>, out |-> [k |-> "None", v |-> 0, q |-> Num(0)],
           prior |-> "none"]

\* the call op(args) with outcome out (ret.prior names the call made before it)
Call(op, args, out) ==
    /\ pc = "ready"
    /\ lists' = out.h.lists
    /\ mvs' = out.h.mvs
    /\ live' = IF out.k = "mv" THEN live \cup {out.v} ELSE live
    /\ ret' = [op |-> op, args |-> args, out |-> Val(out), prior |-> "none"]
    /\ pc' = "called"

\* the same after the first call: x[i] = c and del x[i] on the result or an operand
Mutate(op, args, out) ==
    /\ pc = "called"
    /\ lists' = out.h.lists
    /\ mvs' = out.h.mvs
    /\ live' = live
    /\ ret' = [op |-> op, args |-> args, out |-> Val(out), prior |-> ret.op]
    /\ pc' = "mutated"

\* the nonzero coefficients the program writes
Coefs == {Num(-1), Num(2)}

\* the bare numbers the program passes to an operator
Numbers == {Num(0), Num(-1), Num(2)}

\* the coefficient lists of dimension d with at most one nonzero coefficient
Terms(d) ==
    {[i \in 1..Pow2(d) |-> Num(0)]} \cup
    {[i \in 1..Pow2(d) |-> IF i = b THEN c ELSE Num(0)] : b \in 1..Pow2(d), c \in Coefs}

\* the coefficient lists of dimension d with at most two nonzero coefficients
TwoTerms(d) ==
    {[i \in 1..Pow2(d) |-> IF Truthy(s[i]) THEN s[i] ELSE t[i]] : s, t \in Terms(d)}

\* the program's multivectors at the start: [dim, data]
Operands == UNION {{[dim |-> d, data |-> l] : l \in TwoTerms(d)} : d \in 0..MaxDim}

\* x = 4 + 3e1 + 4e2 + 5e12, y = 3 + 2e1 + 3e2 + 4e12 and z = 10 + 16e1 + 26e2 + 32e12
\* of test-ga.py, in GA(3)
pad3(l) == [i \in 1..8 |-> IF i <= Len(l) THEN Num(l[i]) ELSE Num(0)]

ExampleX == [dim |-> 3, data |-> pad3(<<4, 3, 4, 5>>)]

ExampleY == [dim |-> 3, data |-> pad3(<<3, 2, 3, 4>>)]

ExampleZ == [dim |-> 3, data |-> pad3(<<10, 16, 26, 32>>)]

\* a random_multivector of GA(3) with no zero coefficient:
\* 1 + 2 e1 + 3 e2 + 4 e12 + 5 e3 + 6 e13 + 7 e23 + 8 e123
ExampleW == [dim |-> 3, data |-> pad3(<<1, 2, 3, 4, 5, 6, 7, 8>>)]

\* the state of a program that has built the multivectors of the sequence ms
\* by MultiVector(dim) and x[i] = c
Built(ms) ==
    /\ lists = [o \in 1..Len(ms) |-> ms[o].data]
    /\ mvs = [o \in 1..Len(ms) |-> [dim |-> ms[o].dim, data |-> o]]
    /\ live = 1..Len(ms)
    /\ ret = NoCall
    /\ pc = "ready"

\* one statement of a program that goes on with the same multivectors
Step(op, args, out) ==
    /\ pc = "ready"
    /\ lists' = out.h.lists
    /\ mvs' = out.h.mvs
    /\ live' = live
    /\ ret' = [op |-> op, args |-> args, out |-> Val(out), prior |-> "none"]
    /\ pc' = "ready"

(* The calls. *)

Construct(n) == Call("__init__", <<NumVal(Num(n))>>, __init__(Heap, n))

SetItem(o, i, c) ==
    Mutate("__setitem__", <<MVVal(o), NumVal(Num(i)), NumVal(c)>>, __setitem__(Heap, o, i, c))

DelItem(o, i) ==
    Mutate("__delitem__", <<MVVal(o), NumVal(Num(i))>>, __delitem__(Heap, o, i))

Eq(a, b) == Call("__eq__", <<MVVal(a), MVVal(b)>>, __eq__(Heap, a, MVVal(b)))

UPos(a) == Call("__pos__", <<MVVal(a)>>, __pos__(Heap, a))

UNeg(a) == Call("__neg__", <<MVVal(a)>>, __neg__(Heap, a))

Float(a) == Call("__float__", <<MVVal(a)>>, __float__(Heap, a))

Add(a, b) == Call("__add__", <<MVVal(a), b>>, __add__(Heap, a, b))

RAdd(a, b) == Call("__radd__", <<MVVal(a), b>>, __radd__(Heap, a, b))

Sub(a, b) == Call("__sub__", <<MVVal(a), b>>, __sub__(Heap, a, b))

RSub(a, b) == Call("__rsub__", <<MVVal(a), b>>, __rsub__(Heap, a, b))

Mul(a, b) == Call("__mul__", <<MVVal(a), b>>, __mul__(Heap, a, b))

RMul(a, b) == Call("__rmul__", <<MVVal(a), b>>, __rmul__(Heap, a, b))

Wedge(a, b) == Call("__and__", <<MVVal(a), b>>, __and__(Heap, a, b))

Dot(a, b) == Call("__matmul__", <<MVVal(a), b>>, __matmul__(Heap, a, b))

Meet(a, b) == Call("__or__", <<MVVal(a), b>>, __or__(Heap, a, b))

Invert(a) == Call("__invert__", <<MVVal(a)>>, __invert__(Heap, a))

LeftInv(a) == Call("left_inv", <<MVVal(a)>>, left_inv(Heap, a))

RightInv(a) == Call("right_inv", <<MVVal(a)>>, right_inv(Heap, a))

Div(a, b) == Call("__truediv__", <<MVVal(a), b>>, __truediv__(Heap, a, b))

Dual(a) == Call("dual", <<MVVal(a)>>, dual(Heap, a))

Rank(a) == Call("rank", <<MVVal(a)>>, rank(Heap, a))

Pseudoscalar(a) == Call("I", <<MVVal(a)>>, I(Heap, a))

Cross(a, b) ==
    Call("cross_product", <<MVVal(a), MVVal(b)>>, cross_product(Heap, a, MVVal(b)))

Coerce(n, m) ==
    Call("coerce_multivector", <<NumVal(Num(n)), MVVal(m)>>, coerce_multivector(Heap, n, m))

Set(o, i, c) ==
    Step("__setitem__", <<MVVal(o), NumVal(Num(i)), NumVal(c)>>, __setitem__(Heap, o, i, c))

Clear(o, i) ==
    Step("__delitem__", <<MVVal(o), NumVal(Num(i))>>, __delitem__(Heap, o, i))

Get(o, i) ==
    Step("__getitem__", <<MVVal(o), NumVal(Num(i))>>, __getitem__(Heap, o, i))

Contains(o, i) ==
    Step("__contains__", <<MVVal(o), NumVal(Num(i))>>, __contains__(Heap, o, i))

Iterate(o) == Step("__iter__", <<MVVal(o)>>, __iter__(Heap, o))

Count(o) == Step("__len__", <<MVVal(o)>>, RetNum(Heap, Num(__len__(Heap, o))))

Norm(a) == Call("__abs__", <<MVVal(a)>>, __abs__(Heap, a))

Blade(n, c, l) ==
    Call("blade", <<NumVal(Num(n)), NumVal(c), TupleVal(l)>>, blade(Heap, n, c, l))

GetItem(n, index) ==
    Call("ga_getitem", <<NumVal(Num(n)), index>>, ga_getitem(Heap, n, index))

(* Expressions of test-ga.py. *)

\* x*y == x @ y + (x & y)
decomposition(h, x, y) ==
    Then(__mul__(h, x, MVVal(y)), LAMBDA p :
    Then(__matmul__(p.h, x, MVVal(y)), LAMBDA d :
    Then(__and__(d.h, x, MVVal(y)), LAMBDA w :
    Then(__add__(w.h, d.v, Val(w)), LAMBDA s :
    __eq__(s.h, p.v, Val(s))))))

Decomposition(a, b) ==
    Call("decomposition", <<MVVal(a), MVVal(b)>>, decomposition(Heap, a, b))

\* xx = GA(n).coerce_multivector(x); x == xx
coerce_eq(h, n, x) ==
    LET xx == coerce_multivector(h, n, x)
    IN  IF IsExc(xx) THEN xx ELSE __eq__(xx.h, x, Val(xx))

CoerceEq(n, a) == Call("coerce_eq", <<MVVal(a), NumVal(Num(n))>>, coerce_eq(Heap, n, a))

\* z = x/y; if z is not NotImplemented: z*y == x
div_law(h, x, y) ==
    Then(__truediv__(h, x, MVVal(y)), LAMBDA z :
    IF z.k # "mv" THEN z
    ELSE Then(__mul__(z.h, z.v, MVVal(y)), LAMBDA p :
         __eq__(p.h, p.v, MVVal(x))))

DivLaw(a, b) == Call("div_law", <<MVVal(a), MVVal(b)>>, div_law(Heap, a, b))

\* the two products of x and its inverse z compared with one = GA(x.dim).scalar(1):
\* z*x == one and x*z == one
inverse_products(h, x, z) ==
    Then(scalar(h, dim(h, x), Num(1)), LAMBDA one :
    Then(__mul__(one.h, z, MVVal(x)), LAMBDA p :
    Then(__eq__(p.h, p.v, Val(one)), LAMBDA e1 :
    Then(__mul__(e1.h, x, MVVal(z)), LAMBDA q :
    Then(__eq__(q.h, q.v, Val(one)), LAMBDA e2 :
    RetBool(e2.h, e1.v = 1 /\ e2.v = 1))))))

\* z = x.left_inv(); if z is not NotImplemented: the two products
left_inv_law(h, x) ==
    Then(left_inv(h, x), LAMBDA z :
    IF z.k # "mv" THEN z ELSE inverse_products(z.h, x, z.v))

\* z = x.right_inv(); if z is not NotImplemented: the two products
right_inv_law(h, x) ==
    Then(right_inv(h, x), LAMBDA z :
    IF z.k # "mv" THEN z ELSE inverse_products(z.h, x, z.v))

LeftInvLaw(a) == Call("left_inv_law", <<MVVal(a)>>, left_inv_law(Heap, a))

RightInvLaw(a) == Call("right_inv_law", <<MVVal(a)>>, right_inv_law(Heap, a))

\* ~~x == x
double_reversion(h, x) ==
    Then(__invert__(h, x), LAMBDA y :
    Then(__invert__(y.h, y.v), LAMBDA z :
    __eq__(z.h, z.v, MVVal(x))))

DoubleReversion(a) == Call("double_reversion", <<MVVal(a)>>, double_reversion(Heap, a))

\* x.I*x.I*x.I*x.I == GA(x.dim).scalar(1)
i_fourth(h, x) ==
    Then(I(h, x), LAMBDA a :
    Then(I(a.h, x), LAMBDA b :
    Then(__mul__(b.h, a.v, Val(b)), LAMBDA ab :
    Then(I(ab.h, x), LAMBDA c :
    Then(__mul__(c.h, ab.v, Val(c)), LAMBDA abc :
    Then(I(abc.h, x), LAMBDA d :
    Then(__mul__(d.h, abc.v, Val(d)), LAMBDA abcd :
    Then(scalar(abcd.h, dim(h, x), Num(1)), LAMBDA one :
    __eq__(one.h, abcd.v, Val(one))))))))))

IFourth(a) == Call("i_fourth", <<MVVal(a)>>, i_fourth(Heap, a))

\* x.dual()*x.I == x
dual_undone(h, x) ==
    Then(dual(h, x), LAMBDA d :
    Then(I(d.h, x), LAMBDA i :
    Then(__mul__(i.h, d.v, Val(i)), LAMBDA p :
    __eq__(p.h, p.v, MVVal(x)))))

DualUndone(a) == Call("dual_undone", <<MVVal(a)>>, dual_undone(Heap, a))

\* z = x.cross_product(y); z @ x and z @ y are zero
cross_orthogonal(h, x, y) ==
    Then(cross_product(h, x, MVVal(y)), LAMBDA z :
    Then(__matmul__(z.h, z.v, MVVal(x)), LAMBDA zx :
    Then(__matmul__(zx.h, z.v, MVVal(y)), LAMBDA zy :
    Then(scalar(zy.h, dim(h, x), Num(0)), LAMBDA zero :
    Then(__eq__(zero.h, zx.v, Val(zero)), LAMBDA e1 :
    Then(__eq__(e1.h, zy.v, Val(zero)), LAMBDA e2 :
    RetBool(e2.h, e1.v = 1 /\ e2.v = 1)))))))

CrossOrthogonal(a, b) ==
    Call("cross_orthogonal", <<MVVal(a), MVVal(b)>>, cross_orthogonal(Heap, a, b))

\* asserteq(abs(x)*abs(x), x @ x): a = abs(x)*abs(x) is a float and b = x @ x a
\* MultiVector, so a != b, and the test is abs(a - b) <= 1E-10, a - b being
\* b.__rsub__(a)
norm_identity(h, x) ==
    Then(__abs__(h, x), LAMBDA n :
    Then(__matmul__(n.h, x, MVVal(x)), LAMBDA b :
    Then(__rsub__(b.h, b.v, NumVal(n.q)), LAMBDA diff :
    Then(__abs__(diff.h, diff.v), LAMBDA r :
    RetBool(r.h, r.q = Num(0))))))

NormIdentity(a) == Call("norm_identity", <<MVVal(a)>>, norm_identity(Heap, a))

\* (x*x).rank()
square_rank(h, x) ==
    Then(__mul__(h, x, MVVal(x)), LAMBDA p : rank(p.h, p.v))

SquareRank(a) == Call("square_rank", <<MVVal(a)>>, square_rank(Heap, a))

\* x*x == x @ x
square_is_dot(h, x) ==
    Then(__mul__(h, x, MVVal(x)), LAMBDA p :
    Then(__matmul__(p.h, x, MVVal(x)), LAMBDA d :
    __eq__(d.h, p.v, Val(d))))

SquareIsDot(a) == Call("square_is_dot", <<MVVal(a)>>, square_is_dot(Heap, a))

\* (x*y)*z == x*(y*z)
assoc(h, x, y, z) ==
    LET xy == __mul__(h, x, MVVal(y))
        l == __mul__(xy.h, xy.v, MVVal(z))
        yz == __mul__(l.h, y, MVVal(z))
        r == __mul__(yz.h, x, Val(yz))
    IN  __eq__(r.h, l.v, Val(r))

Assoc(a, b, c) ==
    Call("assoc", <<MVVal(a), MVVal(b), MVVal(c)>>, assoc(Heap, a, b, c))

-----------------------------------------------------------------------------
(* The program that makes any one call on the multivectors x and y it has  *)
(* built, and then sets or clears any one coefficient.                     *)

\* zero, twice the pseudoscalar, and 1 + 2 e1 + 3 e2 + ... of dimension d
FrameOperands(d) ==
    {[dim |-> d, data |-> [i \in 1..Pow2(d) |-> Num(0)]],
     [dim |-> d, data |-> [i \in 1..Pow2(d) |-> IF i = Pow2(d) THEN Num(2) ELSE Num(0)]],
     [dim |-> d, data |-> [i \in 1..Pow2(d) |-> Num(i)]]}

Init ==
    \E dx, dy \in 0..MaxDim :
        \E x \in FrameOperands(dx) :
            Built(<<x, [dim |-> dy, data |-> [i \in 1..Pow2(dy) |-> Num(i)]]>>)

Indices(o) == 0..(Len(DataOf(Heap, o)) - 1)

Next ==
    \/ \E n \in 0..MaxDim : Construct(n)
    \/ \E o \in live : \E i \in Indices(o) : SetItem(o, i, Num(-1))
    \/ \E o \in live : \E i \in Indices(o) : DelItem(o, i)
    \/ \E a \in live : UPos(a)
    \/ \E a \in live : UNeg(a)
    \/ \E a \in live : Float(a)
    \/ \E a \in live : Invert(a)
    \/ \E a \in live : LeftInv(a)
    \/ \E a \in live : RightInv(a)
    \/ \E a \in live : Dual(a)
    \/ \E a \in live : Pseudoscalar(a)
    \/ \E a \in live : \E n \in 0..MaxDim : Coerce(n, a)
    \/ \E a, b \in live : Eq(a, b)
    \/ \E a, b \in live : Cross(a, b)
    \/ \E a \in live : \E b \in {MVVal(o) : o \in live} \cup {NumVal(Num(0)), NumVal(Num(2))} :
          \/ Add(a, b)
          \/ RAdd(a, b)
          \/ Sub(a, b)
          \/ RSub(a, b)
          \/ Mul(a, b)
          \/ RMul(a, b)
          \/ Div(a, b)
          \/ Wedge(a, b)
          \/ Dot(a, b)
          \/ Meet(a, b)

Spec == Init /\ [][Next]_vars

-----------------------------------------------------------------------------
(* The operators on one multivector x (object 1) and a number, and on two  *)
(* multivectors x and y (objects 1 and 2).                                 *)

\* the multivectors the program builds as y: every nonzero coefficient is 2
SecondOperands == {y \in Operands : \A n \in 1..Len(y.data) : y.data[n] \in {Num(0), Num(2)}}

InitOps ==
    \/ \E x \in Operands \cup {ExampleX, ExampleW} : Built(<<x>>)
    \/ \E x \in Operands \cup {ExampleX} : \E y \in SecondOperands \cup {ExampleY} :
           Built(<<x, y>>)

NextOne ==
    /\ live = {1}
    /\ \/ Float(1)
       \/ LeftInv(1)
       \/ RightInv(1)
       \/ LeftInvLaw(1)
       \/ RightInvLaw(1)
       \/ \E n \in 0..MaxDim : CoerceEq(n, 1)
       \/ \E n \in 0..MaxDim : Coerce(n, 1)
       \/ \E c \in Numbers : Add(1, NumVal(c))
       \/ \E c \in Numbers : RAdd(1, NumVal(c))
       \/ \E c \in Numbers : Sub(1, NumVal(c))
       \/ \E c \in Numbers : RSub(1, NumVal(c))
       \/ \E c \in Numbers : Mul(1, NumVal(c))
       \/ \E c \in Numbers : RMul(1, NumVal(c))
       \/ \E c \in Numbers : Div(1, NumVal(c))
       \/ Invert(1)
       \/ DoubleReversion(1)
       \/ Rank(1)
       \/ Pseudoscalar(1)
       \/ Dual(1)
       \/ IFourth(1)
       \/ DualUndone(1)

NextTwo ==
    /\ live = {1, 2}
    /\ \/ Mul(1, MVVal(2))
       \/ Wedge(1, MVVal(2))
       \/ Dot(1, MVVal(2))
       \/ Add(1, MVVal(2))
       \/ Sub(1, MVVal(2))
       \/ Eq(1, 2)
       \/ Decomposition(1, 2)
       \/ Div(1, MVVal(2))
       \/ DivLaw(1, 2)

NextOps == NextOne \/ NextTwo

SpecOps == InitOps /\ [][NextOps]_vars

-----------------------------------------------------------------------------
(* The associativity test on three multivectors x, y and z (objects 1, 2   *)
(* and 3) of one dimension.                                                *)

\* 1 + 2 e1 + 3 e2 + ... of dimension d
Ramp(d) == [i \in 1..Pow2(d) |-> Num(i)]

\* the coefficient lists of dimension d with at most one nonzero coefficient,
\* and the one with no zero coefficient
Dense(d) == Terms(d) \cup {Ramp(d)}

\* the blade indices of dimension BladeDim
Blades == 0..(Pow2(BladeDim) - 1)

\* the unit blade of index a in dimension d
unit_blade(d, a) == [dim |-> d, data |-> [i \in 1..Pow2(d) |-> IF i = a + 1 THEN Num(1) ELSE Num(0)]]

InitAssoc ==
    \/ \E d \in 0..MaxDim :
           \E t \in TwoTerms(d) : \E u \in Dense(d) : \E v \in {Ramp(d)} :
               \/ Built(<<[dim |-> d, data |-> t], [dim |-> d, data |-> u], [dim |-> d, data |-> v]>>)
               \/ Built(<<[dim |-> d, data |-> u], [dim |-> d, data |-> t], [dim |-> d, data |-> v]>>)
               \/ Built(<<[dim |-> d, data |-> u], [dim |-> d, data |-> v], [dim |-> d, data |-> t]>>)
    \/ \E a, b, c \in Blades :
           Built(<<unit_blade(BladeDim, a), unit_blade(BladeDim, b), unit_blade(BladeDim, c)>>)

NextAssoc == live = {1, 2, 3} /\ Assoc(1, 2, 3)

SpecAssoc == InitAssoc /\ [][NextAssoc]_vars

-----------------------------------------------------------------------------
(* The cross product test on two vectors x and y (objects 1 and 2) of      *)
(* GA(3).                                                                  *)

\* the coefficients of the vectors
VectorCoefs == {Num(-1), Num(0), Num(1), Num(2)}

\* x = GA(3).scalar(0); x[1] = a; x[2] = b; x[4] = c
vector(a, b, c) == [dim |-> 3, data |-> <<Num(0), a, b, Num(0), c, Num(0), Num(0), Num(0)>>]

InitCross ==
    \E a, b, c \in VectorCoefs : \E d, e, f \in VectorCoefs \ {Num(-1)} :
        Built(<<vector(a, b, c), vector(d, e, f)>>)

NextCross ==
    /\ live = {1, 2}
    /\ \/ Cross(1, 2)
       \/ CrossOrthogonal(1, 2)

SpecCross == InitCross /\ [][NextCross]_vars

-----------------------------------------------------------------------------
(* The program that asks a factory GA(n) for one blade.                    *)

\* the dimensions of the factories
FactoryDims == 0..(MaxDim + 1)

\* the lists of at most MaxIndices generator indices of GA(n)
IndexLists(n) == UNION {[1..m -> 1..n] : m \in 0..MaxIndices}

InitFactory == Built(<<>>)

NextFactory ==
    /\ live = {}
    /\ \/ \E n \in FactoryDims : \E c \in Numbers : \E l \in IndexLists(n) : Blade(n, c, l)
       \/ \E n \in FactoryDims : \E l \in IndexLists(n) : GetItem(n, TupleVal(l))
       \/ \E n \in FactoryDims : \E i \in 1..n : GetItem(n, IntVal(i))

SpecFactory == InitFactory /\ [][NextFactory]_vars

-----------------------------------------------------------------------------
(* The tests of the norm and of the square of one vector x (object 1).     *)

\* the dimensions of the vectors
VectorDims == 0..(MaxDim + 1)

\* x = GA(d).scalar(0); x[bit] = f[g] for bit = 2**(g-1), g = 1..d
vector_of(d, f) ==
    [dim |-> d,
     data |-> [i \in 1..Pow2(d) |->
                  IF \E g \in 1..d : i - 1 = Pow2(g - 1)
                  THEN f[CHOOSE g \in 1..d : i - 1 = Pow2(g - 1)]
                  ELSE Num(0)]]

InitVector ==
    \E d \in VectorDims : \E f \in [1..d -> VectorCoefs] : Built(<<vector_of(d, f)>>)

NextVector ==
    /\ live = {1}
    /\ \/ Wedge(1, MVVal(1))
       \/ Dot(1, MVVal(1))
       \/ Mul(1, MVVal(1))
       \/ Norm(1)
       \/ NormIdentity(1)
       \/ SquareRank(1)
       \/ SquareIsDot(1)

SpecVector == InitVector /\ [][NextVector]_vars

-----------------------------------------------------------------------------
(* The program that builds y = MultiVector(n) and then sets, clears and    *)
(* queries its coefficients, in any order and any number of times.         *)

InitContainer ==
    \E n \in 0..MaxDim : Built(<<[dim |-> n, data |-> [i \in 1..Pow2(n) |-> Num(0)]]>>)

NextContainer ==
    \/ \E i \in Indices(1) : \E c \in Numbers : Set(1, i, c)
    \/ \E i \in Indices(1) : Clear(1, i)
    \/ \E i \in Indices(1) : Get(1, i)
    \/ \E i \in Indices(1) : Contains(1, i)
    \/ Iterate(1)
    \/ Count(1)

SpecContainer == InitContainer /\ [][NextContainer]_vars

-----------------------------------------------------------------------------
(* The blade-index functions on a pair of blade indices a, b.              *)

InitBlade ==
    /\ lists = <<>>
    /\ mvs = <<>>
    /\ live = {}
    /\ \E a, b \in Blades : ret = [op |-> "none", args |-> <<a, b>>, out |-> <<>>]
    /\ pc = "ready"

\* MultiVector._blade_combine(a, b)
BladeCombine ==
    /\ pc = "ready"
    /\ ret' = [op |-> "_blade_combine", args |-> ret.args,
               out |-> _blade_combine(ret.args[1], ret.args[2])]
    /\ pc' = "called"
    /\ UNCHANGED <<lists, mvs, live>>

\* MultiVector._rank(a)
BladeRank ==
    /\ pc = "ready"
    /\ ret' = [op |-> "_rank", args |-> ret.args, out |-> <<_rank(ret.args[1])>>]
    /\ pc' = "called"
    /\ UNCHANGED <<lists, mvs, live>>

NextBlade == BladeCombine \/ BladeRank

SpecBlade == InitBlade /\ [][NextBlade]_vars

(* The brute-force reference of test-ga.py. *)

\* the inner loop of signum: for j in range(len(l)-1, i, -1)
RECURSIVE signum_inner(_, _, _, _)
signum_inner(l, s, i, j) ==
    IF j <= i THEN [l |-> l, s |-> s]
    ELSE IF l[j + 1] < l[j]
    THEN signum_inner([l EXCEPT ![j] = l[j + 1], ![j + 1] = l[j]], -s, i, j - 1)
    ELSE signum_inner(l, s, i, j - 1)

\* the outer loop of signum: for i in range(len(l))
RECURSIVE signum_outer(_, _, _)
signum_outer(l, s, i) ==
    IF i >= Len(l) THEN [l |-> l, s |-> s]
    ELSE LET r == signum_inner(l, s, i, Len(l) - 1)
         IN  signum_outer(r.l, r.s, i + 1)

\* signum(l): the list sorted in place, and the sign of the transpositions made
signum(l) == signum_outer(l, 1, 0)

\* dedup(l): equal neighbours cancel
RECURSIVE dedup_loop(_, _, _)
dedup_loop(l, x, n) ==
    IF n > Len(l) THEN x
    ELSE IF Len(x) > 0 /\ x[Len(x)] = l[n]
    THEN dedup_loop(l, SubSeq(x, 1, Len(x) - 1), n + 1)
    ELSE dedup_loop(l, Append(x, l[n]), n + 1)

dedup(l) == dedup_loop(l, <<>>, 1)

\* the ascending list of the 1-based generators of blade i (k counts the bits)
RECURSIVE generators(_, _)
generators(i, k) ==
    IF i = 0 THEN <<>>
    ELSE IF i % 2 = 1 THEN <<k>> \o generators(i \div 2, k + 1)
    ELSE generators(i \div 2, k + 1)

\* k += 2**(kk-1) for kk in l
RECURSIVE blade_of(_)
blade_of(l) == IF l = <<>> THEN 0 ELSE Pow2(l[1] - 1) + blade_of(Tail(l))

(* C1: for all blade indices a, b below 2^BladeDim, _blade_combine(a, b) is
   (a XOR b, s), s is +1 or -1 and is the parity of the adjacent
   transpositions that sort a's generators followed by b's; the blade is what
   is left of the sorted list when equal generators cancel; and
   combine(0, b) = (b, +1), combine(a, 0) = (a, +1). *)
C1_CombineMatchesBruteForce ==
    ret.op = "_blade_combine" =>
        LET a == ret.args[1]
            b == ret.args[2]
            ref == signum(generators(a, 1) \o generators(b, 1))
        IN  /\ ret.out[1] = Xor(a, b)
            /\ ret.out[1] = blade_of(dedup(ref.l))
            /\ ret.out[2] \in {1, -1}
            /\ ret.out[2] = ref.s
            /\ (a = 0 => ret.out = <<b, 1>>)
            /\ (b = 0 => ret.out = <<a, 1>>)

\* the doctest pair 7 * 14 = -9: shared and crossing generators, a sign of -1
C1_Witness ==
    /\ ret.op = "_blade_combine"
    /\ ret.args = <<7, 14>>
    /\ ret.out = <<9, -1>>

-----------------------------------------------------------------------------
(* What the claims say of the last call. *)

\* the multivector a call was made on, its second operand, and its result
Self == ret.args[1].v

Other == ret.args[2].v

Result == ret.out.v

\* sum of f[i] over i in lo..hi
RECURSIVE QSum(_, _, _)
QSum(f, lo, hi) == IF lo > hi THEN Num(0) ELSE QAdd(f[lo], QSum(f, lo + 1, hi))

\* _blade_combine on all the pairs of blade indices of the dimensions explored
combine_table ==
    [i \in 0..(Pow2(Max(ExampleX.dim, MaxDim)) - 1), j \in 0..(Pow2(Max(ExampleX.dim, MaxDim)) - 1) |->
        _blade_combine(i, j)]

\* the sum over all pairs (i, j) with combine(i, j) = (k, s) of s * xd[i] * yd[j]
product_coefficient(xd, yd, k) ==
    QSum([i \in 0..(Len(xd) - 1) |->
            QSum([j \in 0..(Len(yd) - 1) |->
                    IF combine_table[i, j][1] = k
                    THEN QMul(Num(combine_table[i, j][2]), QMul(xd[i + 1], yd[j + 1]))
                    ELSE Num(0)],
                 0, Len(yd) - 1)],
         0, Len(xd) - 1)

\* the coefficient list of the geometric product, of dimension m
product_list(xd, yd, m) == [n \in 1..Pow2(m) |-> product_coefficient(xd, yd, n - 1)]

(* C2: X*Y has dimension max(dim X, dim Y) and its coefficient k is the sum
   over all pairs (i, j) with combine(i, j) = (k, s) of s * X[i] * Y[j];
   (4 + 3e1 + 4e2 + 5e12) * (3 + 2e1 + 3e2 + 4e12) is 10 + 16e1 + 26e2 + 32e12
   in dimension 3. *)
C2_ProductIsSumOverBladePairs ==
    (ret.op = "__mul__" /\ ret.args[2].k = "mv") =>
        LET xd == DataOf(Heap, Self)
            yd == DataOf(Heap, Other)
            m == Max(dim(Heap, Self), dim(Heap, Other))
        IN  /\ ret.out.k = "mv"
            /\ dim(Heap, Result) = m
            /\ DataOf(Heap, Result) = product_list(xd, yd, m)
            /\ (xd = ExampleX.data /\ yd = ExampleY.data
                    => DataOf(Heap, Result) = ExampleZ.data /\ dim(Heap, Result) = 3)

\* the product of the example of test-ga.py
C2_Witness ==
    /\ ret.op = "__mul__"
    /\ ret.args[2].k = "mv"
    /\ ret.out.k = "mv"
    /\ DataOf(Heap, Self) = ExampleX.data
    /\ DataOf(Heap, Other) = ExampleY.data
    /\ DataOf(Heap, Result) = ExampleZ.data

\* the indices of the nonzero coefficients of the list d, as blade indices
nonzero_blades(d) == {n - 1 : n \in {n \in 1..Len(d) : Truthy(d[n])}}

\* sign(a, b): the sign _blade_combine gives the product of the blades a and b
sign(a, b) == _blade_combine(a, b)[2]

(* C3: for x, y and z of one dimension, (x*y)*z == x*(y*z) is True, the two
   sides having the same dimension and the same coefficients; and for the
   blades a of x, b of y and c of z,
   sign(a, b) * sign(a XOR b, c) = sign(b, c) * sign(a, b XOR c). *)
C3_ProductIsAssociative ==
    ret.op = "assoc" =>
        /\ ret.out.k = "bool"
        /\ ret.out.v = 1
        /\ DataOf(Heap, 5) = DataOf(Heap, 7)
        /\ \A a \in nonzero_blades(DataOf(Heap, 1)) :
               \A b \in nonzero_blades(DataOf(Heap, 2)) :
                   \A c \in nonzero_blades(DataOf(Heap, 3)) :
                       sign(a, b) * sign(Xor(a, b), c) = sign(b, c) * sign(a, Xor(b, c))

\* x = e1 e2, y = e2 e3, z = e1 e3 in dimension BladeDim: x*y = e1 e3 and
\* y*z = e1 e2, and both sides are -1
C3_Witness ==
    /\ ret.op = "assoc"
    /\ DataOf(Heap, 1) = unit_blade(BladeDim, 3).data
    /\ DataOf(Heap, 2) = unit_blade(BladeDim, 6).data
    /\ DataOf(Heap, 3) = unit_blade(BladeDim, 5).data
    /\ DataOf(Heap, 4) = unit_blade(BladeDim, 5).data
    /\ DataOf(Heap, 6) = unit_blade(BladeDim, 3).data
    /\ DataOf(Heap, 5) = [i \in 1..Pow2(BladeDim) |-> IF i = 1 THEN Num(-1) ELSE Num(0)]
    /\ DataOf(Heap, 7) = DataOf(Heap, 5)
    /\ ret.out.v = 1

\* coefficient n of the list d, a coefficient beyond its end counting as zero
padded(d, n) == IF n <= Len(d) THEN d[n] ELSE Num(0)

(* C4: wedge(x, y) is (x*y - y*x)/2, dot(x, y) is (x*y + y*x)/2, both of
   dimension max(dim x, dim y), and x*y == dot(x, y) + wedge(x, y). *)
C4_WedgeDotDecomposition ==
    LET m == Max(dim(Heap, Self), dim(Heap, Other))
        xy == product_list(DataOf(Heap, Self), DataOf(Heap, Other), m)
        yx == product_list(DataOf(Heap, Other), DataOf(Heap, Self), m)
    IN  /\ ret.op = "__and__" =>
              /\ ret.out.k = "mv"
              /\ dim(Heap, Result) = m
              /\ DataOf(Heap, Result) =
                     [n \in 1..Pow2(m) |-> QDiv(QAdd(xy[n], QNeg(yx[n])), Num(2))]
        /\ ret.op = "__matmul__" =>
              /\ ret.out.k = "mv"
              /\ dim(Heap, Result) = m
              /\ DataOf(Heap, Result) =
                     [n \in 1..Pow2(m) |-> QDiv(QAdd(xy[n], yx[n]), Num(2))]
        /\ ret.op = "decomposition" => ret.out = Val(RetBool(Heap, TRUE))

\* a wedge product that is neither zero nor the whole product:
\* (2 - e1) & (2 e1 + 2 e12) = -2 e2 in GA(2)
C4_Witness ==
    /\ ret.op = "__and__"
    /\ DataOf(Heap, Self) = <<Num(2), Num(-1), Num(0), Num(0)>>
    /\ DataOf(Heap, Other) = <<Num(0), Num(2), Num(0), Num(2)>>
    /\ DataOf(Heap, Result) = <<Num(0), Num(0), Num(-2), Num(0)>>

(* C7: x == y holds iff the coefficient lists have the same length and are
   elementwise identical; multivectors of different dimension are never
   equal, also when the lists differ by trailing zeros only; ExampleX of
   dimension 3 re-projected to dimension 2 keeps its four coefficients and
   compares unequal to ExampleX. *)
C7_EqualityIsLengthAndElementwise ==
    /\ ret.op = "__eq__" =>
          LET xd == DataOf(Heap, Self)
              yd == DataOf(Heap, Other)
          IN  /\ ret.out.k = "bool"
              /\ ret.out.v = 1 <=>
                     /\ Len(xd) = Len(yd)
                     /\ \A n \in 1..Len(xd) : xd[n] = yd[n]
              /\ dim(Heap, Self) # dim(Heap, Other) => ret.out.v = 0
    /\ (ret.op = "coerce_eq" /\ ret.out.k = "bool") =>
          LET xd == DataOf(Heap, Self)
              xx == DataOf(Heap, Len(mvs))
          IN  /\ ret.out.v = 1 <=> ret.args[2].q = Num(dim(Heap, Self))
              /\ (xd = ExampleX.data /\ ret.args[2].q = Num(2)) =>
                     /\ xx = <<Num(4), Num(3), Num(4), Num(5)>>
                     /\ ret.out.v = 0

\* a nonzero x compared with y of a higher dimension whose list is that of x
\* followed by zeros: the comparison is False
C7_Witness ==
    /\ ret.op = "__eq__"
    /\ dim(Heap, Self) < dim(Heap, Other)
    /\ \E n \in 1..Len(DataOf(Heap, Self)) : Truthy(DataOf(Heap, Self)[n])
    /\ \A n \in 1..Len(DataOf(Heap, Other)) :
           DataOf(Heap, Other)[n] = padded(DataOf(Heap, Self), n)
    /\ ret.out.v = 0

(* C8: X+Y and X-Y have dimension max(dim X, dim Y) and coefficient i equal
   to X[i] +/- Y[i], a missing coefficient of the lower-dimensional operand
   counting as zero; with a bare number c the dimension is that of X and c
   counts at blade 0 only: X+c and c+X are X with c added to coefficient 0,
   X-c is X with c subtracted from coefficient 0, and c-X is -X with c added
   to coefficient 0. *)
C8_AddSubElementwise ==
    ret.op \in {"__add__", "__radd__", "__sub__", "__rsub__"} =>
        LET xd == DataOf(Heap, Self)
            b == ret.args[2]
            m == IF b.k = "mv" THEN Max(dim(Heap, Self), dim(Heap, b.v))
                 ELSE dim(Heap, Self)
            y(n) == IF b.k = "mv" THEN padded(DataOf(Heap, b.v), n)
                    ELSE IF n = 1 THEN b.q ELSE Num(0)
        IN  /\ ret.out.k = "mv"
            /\ dim(Heap, Result) = m
            /\ Len(DataOf(Heap, Result)) = Pow2(m)
            /\ \A n \in 1..Pow2(m) :
                   DataOf(Heap, Result)[n] =
                       CASE ret.op \in {"__add__", "__radd__"} -> QAdd(padded(xd, n), y(n))
                         [] ret.op = "__sub__" -> QAdd(padded(xd, n), QNeg(y(n)))
                         [] ret.op = "__rsub__" -> QAdd(y(n), QNeg(padded(xd, n)))

\* X - Y with X of dimension 2 and Y of dimension 1: (2 e1 - e12) - (2 + 2 e1) = -2 - e12
C8_Witness ==
    /\ ret.op = "__sub__"
    /\ ret.args[2].k = "mv"
    /\ DataOf(Heap, Self) = <<Num(0), Num(2), Num(0), Num(-1)>>
    /\ DataOf(Heap, Other) = <<Num(2), Num(2)>>
    /\ DataOf(Heap, Result) = <<Num(-2), Num(0), Num(0), Num(-1)>>

(* C9: float(X) succeeds only when X has at most one nonzero coefficient and
   that one is at blade 0 (it returns that coefficient, or 0 for the zero
   multivector); for every X with a nonzero coefficient at a blade other than
   0 it raises TypeError. *)
C9_FloatOnlyOfScalars ==
    ret.op = "__float__" =>
        LET xd == DataOf(Heap, Self)
        IN  IF nonzero_blades(xd) \subseteq {0}
            THEN ret.out.k = "num" /\ ret.out.q = xd[1]
            ELSE ret.out.k = "TypeError"

\* the reversion of the list d: coefficient i negated iff grade(i) mod 4 is 2 or 3
reversion_list(d) ==
    [n \in 1..Len(d) |-> IF _rank(n - 1) % 4 \in {2, 3} THEN QNeg(d[n]) ELSE d[n]]

(* C10: with y = reversion(X): left_inv(X) is y scaled by 1/s when X*y is a
   pure scalar s # 0, and is NotImplemented, nothing raised, when X*y has a
   nonzero coefficient at a blade other than 0; right_inv(X) likewise with
   y*X. *)
C10_InverseOfReversion ==
    ret.op \in {"left_inv", "right_inv"} =>
        LET xd == DataOf(Heap, Self)
            y == reversion_list(xd)
            p == IF ret.op = "left_inv" THEN product_list(xd, y, dim(Heap, Self))
                 ELSE product_list(y, xd, dim(Heap, Self))
        IN  /\ (nonzero_blades(p) = {0}) =>
                  /\ ret.out.k = "mv"
                  /\ dim(Heap, Result) = dim(Heap, Self)
                  /\ DataOf(Heap, Result) = [n \in 1..Len(y) |-> QDiv(y[n], p[1])]
            /\ (nonzero_blades(p) \ {0} # {}) => ret.out.k = "NotImplemented"

\* left_inv(2 - e12) = (2 + e12)/5 in GA(2)
C10_Witness ==
    /\ ret.op = "left_inv"
    /\ DataOf(Heap, Self) = <<Num(2), Num(0), Num(0), Num(-1)>>
    /\ ret.out.k = "mv"
    /\ DataOf(Heap, Result) = <<Q(2, 5), Num(0), Num(0), Q(1, 5)>>

(* C5: no operator changes the coefficient list (or the dimension) of any
   multivector that exists when it is called, and the multivector it returns
   is a new object whose list is the list of no multivector the program holds;
   x[i] = c and del x[i], made after the call on the result or on an operand,
   change the list of no other multivector the program holds. *)
C5_OperandsUntouchedResultsUnshared ==
    [][/\ pc' = "called" =>
              /\ \A o \in 1..Len(mvs) :
                     /\ mvs'[o] = mvs[o]
                     /\ lists'[mvs'[o].data] = lists[mvs[o].data]
              /\ ret'.out.k = "mv" =>
                     \A o \in live :
                         /\ o # ret'.out.v
                         /\ mvs'[o].data # mvs'[ret'.out.v].data
       /\ pc' = "mutated" =>
              \A o \in live \ {ret'.args[1].v} :
                  lists'[mvs'[o].data] = lists[mvs[o].data]
      ]_vars

\* x = 1 + 2 e1 + 3 e2 + 4 e12, z = +x, z[0] = -1: z has changed and x has not
C5_Witness ==
    /\ pc = "mutated"
    /\ ret.prior = "__pos__"
    /\ ret.op = "__setitem__"
    /\ ret.args[1].v = 3
    /\ DataOf(Heap, 1) = <<Num(1), Num(2), Num(3), Num(4)>>
    /\ DataOf(Heap, 3) = <<Num(-1), Num(2), Num(3), Num(4)>>

(* C6: in every reachable state the coefficient list of every multivector has
   length 2^dim; no step changes the dim of a multivector; and MultiVector(n)
   has dimension n and 2^n coefficients, all zero. *)
C6_LengthIsTwoToTheDim ==
    /\ [](\A o \in 1..Len(mvs) : Len(DataOf(Heap, o)) = Pow2(dim(Heap, o)))
    /\ [](ret.op = "__init__" =>
              /\ ret.out.k = "mv"
              /\ Num(dim(Heap, Result)) = ret.args[1].q
              /\ DataOf(Heap, Result) = [n \in 1..Pow2(dim(Heap, Result)) |-> Num(0)])
    /\ [][\A o \in 1..Len(mvs) : mvs'[o].dim = mvs[o].dim]_vars

\* z = x*y of dimension 2 for x of dimension 1 and y of dimension 2, then del z[3]
C6_Witness ==
    /\ pc = "mutated"
    /\ ret.prior = "__mul__"
    /\ ret.op = "__delitem__"
    /\ ret.args[1].v = 3
    /\ dim(Heap, 1) = 1
    /\ dim(Heap, 2) = 2
    /\ dim(Heap, 3) = 2
    /\ Len(DataOf(Heap, 3)) = 4

(* C11, as the code has it: left_inv and right_inv turn only TypeError into
   NotImplemented.  When the normalizing scalar X*~X (or ~X*X) is zero, which
   is so exactly when X is the zero multivector, they raise ZeroDivisionError;
   X is left as it was. *)
C11_InverseOfZeroRaises ==
    ret.op \in {"left_inv", "right_inv"} =>
        LET xd == DataOf(Heap, Self)
            y == reversion_list(xd)
            p == IF ret.op = "left_inv" THEN product_list(xd, y, dim(Heap, Self))
                 ELSE product_list(y, xd, dim(Heap, Self))
        IN  /\ nonzero_blades(p) = {} <=> nonzero_blades(xd) = {}
            /\ nonzero_blades(p) = {} <=> ret.out.k = "ZeroDivisionError"
            /\ ret.out.k \in {"mv", "NotImplemented", "ZeroDivisionError"}

\* left_inv of the zero multivector of dimension 2 raised ZeroDivisionError
C11_Witness ==
    /\ ret.op = "left_inv"
    /\ DataOf(Heap, Self) = <<Num(0), Num(0), Num(0), Num(0)>>
    /\ ret.out.k = "ZeroDivisionError"

(* C11, as stated: left_inv and right_inv never raise; a zero normalizing
   scalar gives NotImplemented. *)
C11_InverseNeverRaises ==
    ret.op \in {"left_inv", "right_inv"} => ret.out.k \in {"mv", "NotImplemented"}

(* C12, as the code has it: with r = ~Y and p = Y*r, X/Y is X * (r/p[0]), of
   dimension max(dim X, dim Y), when p is a nonzero pure scalar; it is
   NotImplemented, nothing raised, when p has a nonzero coefficient at a blade
   other than 0; and it raises ZeroDivisionError when Y is zero.  When X/Y is
   a multivector, (X/Y)*Y == X is True exactly when dim Y <= dim X: for a Y of
   higher dimension the product has the longer list of Y and compares
   unequal to X. *)
C12_DivisionByLeftInverse ==
    /\ (ret.op = "__truediv__" /\ ret.args[2].k = "mv") =>
          LET xd == DataOf(Heap, Self)
              yd == DataOf(Heap, Other)
              r == reversion_list(yd)
              p == product_list(yd, r, dim(Heap, Other))
              m == Max(dim(Heap, Self), dim(Heap, Other))
          IN  /\ nonzero_blades(p) = {0} =>
                    /\ ret.out.k = "mv"
                    /\ dim(Heap, Result) = m
                    /\ DataOf(Heap, Result) =
                           product_list(xd, [n \in 1..Len(r) |-> QDiv(r[n], p[1])], m)
              /\ nonzero_blades(p) \ {0} # {} => ret.out.k = "NotImplemented"
              /\ nonzero_blades(p) = {} => ret.out.k = "ZeroDivisionError"
    /\ (ret.op = "div_law" /\ ret.out.k = "bool") =>
          (ret.out.v = 1 <=> dim(Heap, Other) <= dim(Heap, Self))

\* (2 e1 - e12) / (2 e2) = -1/2 e1 + e12 in GA(2)
C12_Witness ==
    /\ ret.op = "__truediv__"
    /\ ret.args[2].k = "mv"
    /\ DataOf(Heap, Self) = <<Num(0), Num(2), Num(0), Num(-1)>>
    /\ DataOf(Heap, Other) = <<Num(0), Num(0), Num(2), Num(0)>>
    /\ ret.out.k = "mv"
    /\ DataOf(Heap, Result) = <<Num(0), Q(-1, 2), Num(0), Num(1)>>

(* C12, as stated: whenever X/Y is a multivector, (X/Y)*Y == X. *)
C12_DivisionUndoneByProduct ==
    (ret.op = "div_law" /\ ret.out.k = "bool") => ret.out.v = 1

(* C13: whenever left_inv(x) is a multivector z, z*x and x*z both equal the
   scalar 1 of the dimension of x, and the same for right_inv(x); and x*~x is
   a nonzero pure scalar exactly when ~x*x is, the two products then being
   equal. *)
C13_InverseLaw ==
    /\ (ret.op \in {"left_inv_law", "right_inv_law"} /\ ret.out.k = "bool") =>
          ret.out.v = 1
    /\ ret.op \in {"left_inv", "right_inv", "left_inv_law", "right_inv_law"} =>
          LET xd == DataOf(Heap, Self)
              y == reversion_list(xd)
              p == product_list(xd, y, dim(Heap, Self))
              q == product_list(y, xd, dim(Heap, Self))
          IN  /\ nonzero_blades(p) = {0} <=> nonzero_blades(q) = {0}
              /\ nonzero_blades(p) = {0} => p = q
              /\ nonzero_blades(p) = {0} <=> ret.out.k \in {"mv", "bool"}

\* x = 2 e1 - e2 in GA(2): left_inv(x) = x/5, and both products are 1
C13_Witness ==
    /\ ret.op = "left_inv_law"
    /\ DataOf(Heap, Self) = <<Num(0), Num(2), Num(-1), Num(0)>>
    /\ DataOf(Heap, 2) = <<Num(0), Q(2, 5), Q(-1, 5), Num(0)>>
    /\ ret.out.k = "bool"
    /\ ret.out.v = 1

(* C14: x*c and c*x for a number c return a new multivector of the dimension
   of x whose coefficient i is x[i]*c; x/c for a number c # 0 returns a new
   multivector of the dimension of x whose coefficient i is x[i]/c; x/0 raises
   ZeroDivisionError, and then no multivector is made and x is as before. In
   every case the coefficients of x are as before the call. *)
C14_ScalingByNumber ==
    [][(/\ pc' = "called"
        /\ ret'.op \in {"__mul__", "__rmul__", "__truediv__"}
        /\ ret'.args[2].k = "num") =>
           LET x == ret'.args[1].v
               c == ret'.args[2].q
               d == DataOf(Heap, x)
               z == ret'.out.v
           IN  /\ mvs'[x] = mvs[x]
               /\ lists'[mvs'[x].data] = d
               /\ IF ret'.op = "__truediv__" /\ ~Truthy(c)
                  THEN /\ ret'.out.k = "ZeroDivisionError"
                       /\ lists' = lists
                       /\ mvs' = mvs
                       /\ live' = live
                  ELSE /\ ret'.out.k = "mv"
                       /\ z \notin live
                       /\ z \in live'
                       /\ mvs'[z].dim = mvs[x].dim
                       /\ lists'[mvs'[z].data] =
                              [i \in 1..Len(d) |->
                                  IF ret'.op = "__truediv__" THEN QDiv(d[i], c)
                                  ELSE QMul(d[i], c)]
      ]_vars

\* x = -1 + 2 e1 of dimension 1, x / 0: ZeroDivisionError, x is the only multivector
C14_Witness ==
    /\ ret.op = "__truediv__"
    /\ ret.args[2] = NumVal(Num(0))
    /\ ret.out.k = "ZeroDivisionError"
    /\ Len(mvs) = 1
    /\ live = {1}
    /\ DataOf(Heap, 1) = <<Num(-1), Num(2)>>

\* the grade of blade i: the number of its generators
grade(i) == Len(generators(i, 1))

\* the product of the generators of the list l taken from the last to the first,
\* times the blade k with sign s: <<blade, sign>>
RECURSIVE reversed_product(_, _, _)
reversed_product(l, k, s) ==
    IF l = <<>> THEN <<k, s>>
    ELSE LET c == _blade_combine(k, Pow2(l[Len(l)] - 1))
         IN  reversed_product(SubSeq(l, 1, Len(l) - 1), c[1], s * c[2])

(* C15: ~X is a new multivector of the dimension of X whose coefficient i is
   -X[i] when grade(i) mod 4 is 2 or 3 and X[i] otherwise; for every blade i
   the generators of i multiplied in descending order give blade i with that
   sign; and ~~X == X is True. *)
C15_ReversionSigns ==
    /\ ret.op = "__invert__" =>
           LET d == DataOf(Heap, Self)
           IN  /\ ret.out.k = "mv"
               /\ Result # Self
               /\ dim(Heap, Result) = dim(Heap, Self)
               /\ DataOf(Heap, Result) =
                      [n \in 1..Len(d) |->
                          IF grade(n - 1) % 4 \in {2, 3} THEN QNeg(d[n]) ELSE d[n]]
               /\ \A i \in Blades :
                      reversed_product(generators(i, 1), 0, 1) =
                          <<i, IF grade(i) % 4 \in {2, 3} THEN -1 ELSE 1>>
    /\ ret.op = "double_reversion" => (ret.out.k = "bool" /\ ret.out.v = 1)

\* ~(1 + 2 e1 + 3 e2 + 4 e12 + 5 e3 + 6 e13 + 7 e23 + 8 e123)
C15_Witness ==
    /\ ret.op = "__invert__"
    /\ DataOf(Heap, Self) = ExampleW.data
    /\ DataOf(Heap, Result) = pad3(<<1, 2, 3, -4, 5, -6, -7, -8>>)

(* C16: rank(X) is the largest grade(i) over the blades i with X[i] # 0 when
   there is one, and -math.inf exactly when X has no nonzero coefficient; so
   rank(-e1 + 2 e2) = 1 and rank(1 + 2 e1 + ... + 8 e123) = 3. *)
C16_RankIsMaxGrade ==
    ret.op = "rank" =>
        LET nz == nonzero_blades(DataOf(Heap, Self))
        IN  /\ ret.out.k \in {"num", "-inf"}
            /\ ret.out.k = "-inf" <=> nz = {}
            /\ nz # {} =>
                   /\ \E i \in nz : ret.out.q = Num(grade(i))
                   /\ \A i \in nz : grade(i) <= ret.out.q[1]
            /\ DataOf(Heap, Self) = <<Num(0), Num(-1), Num(2), Num(0)>> => ret.out.q = Num(1)
            /\ DataOf(Heap, Self) = ExampleW.data => ret.out.q = Num(3)

\* rank of the zero multivector of dimension 2
C16_Witness ==
    /\ ret.op = "rank"
    /\ DataOf(Heap, Self) = <<Num(0), Num(0), Num(0), Num(0)>>
    /\ ret.out.k = "-inf"

\* the coefficient list of dimension n with 1 at blade 2^n - 1 and 0 elsewhere
pseudoscalar_list(n) == [i \in 1..Pow2(n) |-> IF i = Pow2(n) THEN Num(1) ELSE Num(0)]

(* C17: X.I is the multivector of the dimension n of X with coefficient 1 at
   blade 2^n - 1 and 0 elsewhere; dual(X) is the reference product X*I*I*I, of
   dimension n; its coefficient at the blade (2^n - 1) XOR i, of grade
   n - grade(i), is X[i] or -X[i]; I*I*I*I == 1 and dual(X)*I == X are True. *)
C17_DualIsTimesICubed ==
    /\ ret.op = "I" =>
           /\ ret.out.k = "mv"
           /\ dim(Heap, Result) = dim(Heap, Self)
           /\ DataOf(Heap, Result) = pseudoscalar_list(dim(Heap, Self))
    /\ ret.op = "dual" =>
           LET n == dim(Heap, Self)
               xd == DataOf(Heap, Self)
               id == pseudoscalar_list(n)
               zd == DataOf(Heap, Result)
           IN  /\ ret.out.k = "mv"
               /\ dim(Heap, Result) = n
               /\ zd = product_list(product_list(product_list(xd, id, n), id, n), id, n)
               /\ \A i \in 0..(Pow2(n) - 1) :
                      LET j == Xor(Pow2(n) - 1, i)
                      IN  /\ grade(j) = n - grade(i)
                          /\ zd[j + 1] \in {xd[i + 1], QNeg(xd[i + 1])}
    /\ ret.op \in {"i_fourth", "dual_undone"} => (ret.out.k = "bool" /\ ret.out.v = 1)

\* dual(1 + 2 e1 + 3 e2 + 4 e12 + 5 e3 + 6 e13 + 7 e23 + 8 e123) =
\* 8 + 7 e1 - 6 e2 - 5 e12 + 4 e3 + 3 e13 - 2 e23 - e123
C17_Witness ==
    /\ ret.op = "dual"
    /\ DataOf(Heap, Self) = ExampleW.data
    /\ DataOf(Heap, Result) = pad3(<<8, 7, -6, -5, 4, 3, -2, -1>>)

(* C18: for x = x1 e1 + x2 e2 + x3 e3 and y = y1 e1 + y2 e2 + y3 e3 of GA(3),
   x.cross_product(y) is the multivector of dimension 3 with coefficients
   x2 y3 - x3 y2 at e1, x3 y1 - x1 y3 at e2, x1 y2 - x2 y1 at e3 and 0 at every
   other blade; its dot products with x and with y are zero; so
   cross(e1, e2) = e3, cross(e2, e3) = e1 and cross(e3, e1) = e2. *)
C18_CrossProductOfVectors ==
    /\ ret.op = "cross_product" =>
           LET xd == DataOf(Heap, Self)
               yd == DataOf(Heap, Other)
               zd == DataOf(Heap, Result)
               minor(a, b) == QAdd(QMul(xd[a], yd[b]), QNeg(QMul(xd[b], yd[a])))
           IN  /\ ret.out.k = "mv"
               /\ dim(Heap, Result) = 3
               /\ zd = vector(minor(3, 5), minor(5, 2), minor(2, 3)).data
               /\ (xd = vector(Num(1), Num(0), Num(0)).data /\ yd = vector(Num(0), Num(1), Num(0)).data)
                      => zd = vector(Num(0), Num(0), Num(1)).data
               /\ (xd = vector(Num(0), Num(1), Num(0)).data /\ yd = vector(Num(0), Num(0), Num(1)).data)
                      => zd = vector(Num(1), Num(0), Num(0)).data
               /\ (xd = vector(Num(0), Num(0), Num(1)).data /\ yd = vector(Num(1), Num(0), Num(0)).data)
                      => zd = vector(Num(0), Num(1), Num(0)).data
    /\ ret.op = "cross_orthogonal" => (ret.out.k = "bool" /\ ret.out.v = 1)

\* (-e1 + 2 e2 + e3) x (2 e1 + e2 + 2 e3) = 3 e1 + 4 e2 - 5 e3
C18_Witness ==
    /\ ret.op = "cross_product"
    /\ DataOf(Heap, Self) = vector(Num(-1), Num(2), Num(1)).data
    /\ DataOf(Heap, Other) = vector(Num(2), Num(1), Num(2)).data
    /\ DataOf(Heap, Result) = vector(Num(3), Num(4), Num(-5)).data

(* C19: GA(t).coerce_multivector(m) returns a new multivector of dimension t
   whose coefficient i is m[i] for i < 2^m.dim and 0 above, when every nonzero
   coefficient of m is at a blade index below 2^t; when m has a nonzero
   coefficient at a blade index >= 2^t it raises IndexError and returns
   nothing (the zero coefficients at such indices are skipped). *)
C19_CoerceCopiesOrFails ==
    ret.op = "coerce_multivector" =>
        LET t == ret.args[1].q[1]
            md == DataOf(Heap, ret.args[2].v)
            high == {i \in nonzero_blades(md) : i >= Pow2(t)}
        IN  /\ high = {} =>
                   /\ ret.out.k = "mv"
                   /\ Result # ret.args[2].v
                   /\ dim(Heap, Result) = t
                   /\ DataOf(Heap, Result) = [n \in 1..Pow2(t) |-> padded(md, n)]
            /\ high # {} => ret.out.k = "IndexError"

\* GA(1).coerce_multivector(2 e2), 2 e2 of dimension 2: IndexError
C19_Witness ==
    /\ ret.op = "coerce_multivector"
    /\ ret.args[1].q = Num(1)
    /\ DataOf(Heap, ret.args[2].v) = <<Num(0), Num(0), Num(2), Num(0)>>
    /\ ret.out.k = "IndexError"

(* C19 as stated: coerce_multivector always returns a multivector of
   dimension t with coefficient i equal to m[i] for every i < 2^t, the blades
   of m at index >= 2^t being dropped without an error. *)
C19_CoerceDropsSilently ==
    ret.op = "coerce_multivector" =>
        LET t == ret.args[1].q[1]
            md == DataOf(Heap, ret.args[2].v)
        IN  /\ ret.out.k = "mv"
            /\ dim(Heap, Result) = t
            /\ DataOf(Heap, Result) = [n \in 1..Pow2(t) |-> padded(md, n)]

\* the sign of the transpositions that sort l: -1 to the number of pairs out of order
sort_sign(l) ==
    IF Cardinality({pq \in (1..Len(l)) \X (1..Len(l)) : pq[1] < pq[2] /\ l[pq[1]] > l[pq[2]]}) % 2 = 0
    THEN 1 ELSE -1

\* the generators that occur an odd number of times in l
odd_generators(l) ==
    {g \in {l[p] : p \in 1..Len(l)} : Cardinality({p \in 1..Len(l) : l[p] = g}) % 2 = 1}

(* C20: GA(n).blade(c, i1, ..., ik) with every index in 1..n is the
   multivector of dimension n with coefficient c * s at the blade whose
   generators are the indices that occur an odd number of times, and 0
   elsewhere, s the sign of the transpositions that sort the list, which is
   the sign signum finds, the blade being dedup of the sorted list; for a
   strictly ascending list the coefficient is c at the blade of the listed
   generators; GA(n)[i1, ..., ik] and GA(n)[i] are the same with c = 1. *)
C20_BladeOfIndexList ==
    ret.op \in {"blade", "ga_getitem"} =>
        LET n == ret.args[1].q[1]
            c == IF ret.op = "blade" THEN ret.args[2].q ELSE Num(1)
            l == ret.args[Len(ret.args)].q
            sorted == signum(l)
            S == odd_generators(l)
            zd == DataOf(Heap, Result)
        IN  /\ ret.out.k = "mv"
            /\ dim(Heap, Result) = n
            /\ sorted.s = sort_sign(l)
            /\ {dedup(sorted.l)[p] : p \in 1..Len(dedup(sorted.l))} = S
            /\ Len(dedup(sorted.l)) = Cardinality(S)
            /\ zd = [a \in 1..Pow2(n) |->
                        IF {g \in 1..n : (a - 1) \div Pow2(g - 1) % 2 = 1} = S
                        THEN QMul(c, Num(sort_sign(l))) ELSE Num(0)]
            /\ (\A p \in 1..(Len(l) - 1) : l[p] < l[p + 1]) =>
                   zd[blade_of(l) + 1] = c

\* GA(2).blade(2, 2, 1, 2) = -2 e1
C20_Witness ==
    /\ ret.op = "blade"
    /\ ret.args[1].q = Num(2)
    /\ ret.args[2].q = Num(2)
    /\ ret.args[3].q = <<2, 1, 2>>
    /\ DataOf(Heap, Result) = <<Num(0), Num(-2), Num(0), Num(0)>>

\* the sum of the squares of the coefficients of the list d
sum_of_squares(d) == QSum([n \in 1..Len(d) |-> QMul(d[n], d[n])], 1, Len(d))

\* the coefficient list of the scalar q in the dimension of the list d
scalar_list(d, q) == [n \in 1..Len(d) |-> IF n = 1 THEN q ELSE Num(0)]

(* C21: for a vector v (nonzero coefficients at single-generator blades only)
   of any dimension: v & v is zero; v*v and v @ v are the scalar whose
   coefficient at blade 0 is the sum of the squares of the coefficients of v,
   so v*v == v @ v is True; abs(v) is the square root of that sum, and
   abs(v)*abs(v) and v @ v differ by zero; (v*v).rank() is 0 when v is not
   zero and -math.inf when v is zero. *)
C21_SquareOfVectorIsNormSquared ==
    LET d == DataOf(Heap, 1)
        q == sum_of_squares(d)
    IN  /\ ret.op = "__and__" =>
               /\ ret.out.k = "mv"
               /\ DataOf(Heap, Result) = scalar_list(d, Num(0))
        /\ ret.op \in {"__mul__", "__matmul__"} =>
               /\ ret.out.k = "mv"
               /\ dim(Heap, Result) = dim(Heap, 1)
               /\ DataOf(Heap, Result) = scalar_list(d, q)
        /\ ret.op = "__abs__" => (ret.out.k = "sqrt" /\ ret.out.q = q)
        /\ ret.op \in {"norm_identity", "square_is_dot"} =>
               (ret.out.k = "bool" /\ ret.out.v = 1)
        /\ ret.op = "square_rank" =>
               IF nonzero_blades(d) = {} THEN ret.out.k = "-inf"
               ELSE ret.out.k = "num" /\ ret.out.q = Num(0)

\* v = -e1 + 2 e2 + 2 e3 of dimension 3: v @ v = 9
C21_Witness ==
    /\ ret.op = "__matmul__"
    /\ DataOf(Heap, 1) = vector_of(3, <<Num(-1), Num(2), Num(2)>>).data
    /\ DataOf(Heap, Result) = pad3(<<9>>)

(* C22: in every state reached by any sequence of x[i] = c, del x[i] and
   queries on a multivector x of dimension n, with 0 <= i < 2^n: x[i] = c
   changes coefficient i to c and no other, del x[i] changes coefficient i to
   0 and no other, and a query changes nothing; [i for i in x] is the strictly
   ascending list of exactly the indices of the nonzero coefficients; len(x)
   is the length of that list; i in x is True iff coefficient i is not zero;
   x[i] is coefficient i; the list of x keeps its 2^n coefficients. *)
C22_ContainerOperations ==
    /\ [][LET x == ret'.args[1].v
              i == ret'.args[2].q[1]
          IN  /\ mvs' = mvs
              /\ ret'.op = "__setitem__" =>
                     /\ ret'.out.k = "None"
                     /\ lists' = [lists EXCEPT ![mvs[x].data][i + 1] = ret'.args[3].q]
              /\ ret'.op = "__delitem__" =>
                     /\ ret'.out.k = "None"
                     /\ lists' = [lists EXCEPT ![mvs[x].data][i + 1] = Num(0)]
              /\ ret'.op \in {"__getitem__", "__contains__", "__iter__", "__len__"} =>
                     lists' = lists
        ]_vars
    /\ [](LET d == DataOf(Heap, 1)
              nz == {n \in 0..(Len(d) - 1) : d[n + 1] # Num(0)}
          IN  /\ Len(d) = Pow2(dim(Heap, 1))
              /\ ret.op = "__iter__" =>
                     LET l == ret.out.q
                     IN  /\ ret.out.k = "list"
                         /\ {l[p] : p \in 1..Len(l)} = nz
                         /\ \A p \in 1..(Len(l) - 1) : l[p] < l[p + 1]
              /\ ret.op = "__len__" =>
                     /\ ret.out.q = Num(Cardinality(nz))
                     /\ ret.out.q = Num(Len(iter_loop(d, 0)))
              /\ ret.op = "__contains__" =>
                     /\ ret.out.k = "bool"
                     /\ ret.out.v = 1 <=> ret.args[2].q[1] \in nz
              /\ ret.op = "__getitem__" =>
                     /\ ret.out.k = "num"
                     /\ ret.out.q = d[ret.args[2].q[1] + 1])

\* after x[1] = 2, x[3] = -1 (and any other sets and clears): [i for i in x] = [1, 3]
C22_Witness ==
    /\ ret.op = "__iter__"
    /\ DataOf(Heap, 1) = <<Num(0), Num(2), Num(0), Num(-1)>>
    /\ ret.out.q = <<1, 3>>

=============================================================================
